---- MODULE Spec2Model ----
(***************************************************************************)
(* Model of the hashtag importer's synchronisation loop                    *)
(* (src/src/hashtag_importer.rs: run, import_hashtag, import_status,       *)
(* wait_until_key, wait_until).                                            *)
(*                                                                         *)
(* The program is one sequential thread.  `pc` is its position, time is    *)
(* counted in whole minutes since an arbitrary origin, and the remote API  *)
(* (hashtags(), import()) is an environment that may answer anything.      *)
(***************************************************************************)
EXTENDS Integers, Sequences, FiniteSets, TLC

\* ------------------------------------------------------------------ bounds
\* Each run of the model is followed until its clock would pass a bound:
\* the more the servers may answer, the earlier.
\* - the servers answer with any of three URLs of one host
MaxTime == 13
\* - the servers answer with URLs of two hosts and one that has no host
MaxTimeMixed == 10
\* - the servers answer with one URL, or nothing
MaxTimeSingle == 16
\* - the servers answer with empty lists or errors only
MaxTimeIdle == 25
\* - the same, in the runs with restarts of the process
MaxTimeRestart == 8
\* Number of process restarts the restart specification allows.
MaxRestarts == 1

\* ------------------------------------------------------------- time units
\* One minute is the unit of time; every duration of the program (60 s,
\* 5 * 60 s, 3600 s / n) is a whole number of minutes.
Minute == 1
Hour == 60 * Minute

Max(a, b) == IF a >= b THEN a ELSE b
\* u64 saturating subtraction
SatSub(a, b) == IF a >= b THEN a - b ELSE 0

\* ---------------------------------------------------------- configuration
\* config.server
Server == "L"
\* config.hashtag: the ordered list of hashtags with their source servers;
\* the second one lists the local server itself as a source.
Hashtags == << [name |-> "t1", sources |-> <<"A", "B">>],
               [name |-> "t2", sources |-> <<"L">>] >>
NumHashtags == Len(Hashtags)
Servers == {"A", "B", "L"}

\* Status URLs the servers may return, and the host reqwest::Url::parse finds
\* in each; NoHost stands for a URL that does not parse or has no host.
NoHost == "-"
URLs == {"u1", "u2", "u3", "u4", "u5"}
UrlHost(u) == CASE u \in {"u1", "u2", "u3"} -> "h1"
                [] u = "u4" -> "h2"
                [] OTHER -> NoHost
Hosts == {UrlHost(u) : u \in URLs} \ {NoHost}

\* ----------------------------------------------------------- rate limiter
\* Quota::per_minute(n), Quota::per_hour(n): a burst of n cells, one cell
\* replenished every period / n.
PerMinute(n) == [max_burst |-> n, replenish_1_per |-> Minute \div n]
PerHour(n) == [max_burst |-> n, replenish_1_per |-> Hour \div n]

QuotaQueries == PerMinute(1)
QuotaUpstreams == PerHour(5)
QuotaImport == PerHour(20)
QuotaLoop == PerHour(4)

\* A bucket's state is its theoretical arrival time (minutes since the
\* limiter was built); 0 is the state of a key that has no bucket.
NoBucket == 0

\* RateLimiter::check / check_key at time t0 (since the limiter was built):
\* granted when the bucket holds a cell, otherwise the wait until it does.
Check(q, tat, t0) ==
    LET t == q.replenish_1_per
        tau == t * (q.max_burst - 1)
        earliest == SatSub(tat, tau)
    IN  IF t0 < earliest
        THEN [ok |-> FALSE, state |-> tat, wait |-> earliest - t0]
        ELSE [ok |-> TRUE, state |-> Max(tat, t0) + t, wait |-> 0]

\* wait_until / wait_until_key: check, sleep for the reported wait, check
\* again, until granted.  Yields the bucket's new state and the time of the
\* grant.
RECURSIVE WaitUntil(_, _, _)
WaitUntil(q, tat, t0) ==
    LET r == Check(q, tat, t0)
    IN  IF r.ok THEN [state |-> r.state, at |-> t0]
        ELSE WaitUntil(q, tat, t0 + r.wait)

\* What the servers may answer in one run of the model, and the time until
\* which the run is followed.
Runs == { [offer |-> {"u1", "u2", "u3"}, until |-> MaxTime],
          [offer |-> {"u1", "u4", "u5"}, until |-> MaxTimeMixed],
          [offer |-> {"u1"}, until |-> MaxTimeSingle],
          [offer |-> {}, until |-> MaxTimeIdle] }

\* The runs followed when the process may be restarted.
RunsRestart == { [offer |-> {"u1", "u2", "u3"}, until |-> MaxTimeRestart],
                 [offer |-> {"u1", "u5"}, until |-> MaxTimeRestart] }

\* ------------------------------------------------------- program decisions
\* The fixed sleep between two passes: sleep(Duration::from_secs(5 * 60)).
SleepBetweenPasses == 5 * Minute

\* (variant: the local statuses are not taken out)
CandidatesNoDiff(remote, local) == remote

\* remote_statuses.difference(&local_statuses)
Candidates(remote, local) == remote \ local

\* (variant: the lookup in imported_statuses is missing)
AlreadyImportedNever(imported, status) == FALSE

\* imported_statuses.contains(status)
AlreadyImported(imported, status) == status \in imported

\* (variant: the insert is missing)
AfterImportOkNoInsert(imported, status) == imported

\* imported_statuses.insert(status.to_string()) after import_status() == Ok
AfterImportOk(imported, status) == imported \cup {status}

\* (variant: the status is inserted before the result is looked at)
AfterImportErrInsert(imported, status) == imported \cup {status}

\* the `continue` taken when import_status() returns Err
AfterImportErr(imported, status) == imported

\* (variant: the set is pruned on the error path as well)
AfterFetchErrPruned(imported, remote) == imported \cap remote

\* the ? after a failed hashtags(): import_hashtag() returns at once, before
\* the loop over the candidates and before retain
AfterFetchErr(imported, remote) == imported

\* (variant: the predicate of retain is inverted)
RetainInverted(imported, remote) == imported \ remote

\* (variant: nothing is pruned)
RetainAll(imported, remote) == imported

\* imported_statuses.retain(|s| remote_statuses.contains(s))
Retain(imported, remote) == imported \cap remote

\* (variant: the upstream limiter is not asked, the import goes ahead)
CheckUpstreamIgnored(tat, t0) == [ok |-> TRUE, state |-> tat, wait |-> 0]

\* lim_upstreams.check_key(&host) in import_status
CheckUpstream(tat, t0) == Check(QuotaUpstreams, tat, t0)

\* (variant: the wait on the query limiter before import() is missing)
AfterImportLimiterCall == "import"

\* import_status(), line 188: after wait_until(lim_import) comes
\* wait_until_key(lim_queries, &config.server)
AfterImportLimiter == "wait_query"

\* (variant: an Err of import_hashtag() leaves the for loop)
AfterHashtagBreak(h, res) ==
    IF h < NumHashtags /\ res = "Ok" THEN [pc |-> "hashtag", i |-> h + 1]
    ELSE [pc |-> "sleep", i |-> h]

\* (variant: the sleep after the last hashtag is missing)
AfterHashtagNoSleep(h, res) ==
    IF h < NumHashtags THEN [pc |-> "hashtag", i |-> h + 1]
    ELSE [pc |-> "wait_loop", i |-> h]

\* The position of run() after import_hashtag() returned for hashtag h:
\* the for loop goes to the next hashtag, or leaves for the sleep.
AfterHashtag(h, res) ==
    IF h < NumHashtags THEN [pc |-> "hashtag", i |-> h + 1]
    ELSE [pc |-> "sleep", i |-> h]

\* (variant: the compaction drops every bucket)
ShrinkToFitAll(lim, t0) == [k \in DOMAIN lim |-> NoBucket]

\* lim_upstreams.shrink_to_fit(): buckets that hold their full burst again
\* are dropped, the others are kept as they are.
ShrinkToFit(lim, t0) ==
    [k \in DOMAIN lim |-> IF lim[k] <= t0 THEN NoBucket ELSE lim[k]]

\* ------------------------------------------------------------------ state
VARIABLES
    now,                \* the clock, in minutes
    start,              \* the time the running process was started
    restarts,           \* number of restarts so far
    pc,                 \* position of the thread
    i,                  \* index of the hashtag being processed
    s,                  \* index of the source being fetched
    cur,                \* the status import_status() is working on
    result,             \* what import_hashtag() returned: "Ok", "Err"
    imported_statuses,  \* per hashtag: the set of imported URLs
    remote_statuses,    \* import_hashtag's remote_statuses
    local_statuses,     \* import_hashtag's local_statuses
    todo,               \* candidates the for loop has not visited yet
    lim_queries,        \* keyed by server
    lim_upstreams,      \* keyed by upstream host
    lim_import,         \* direct
    lim_loop,           \* direct
    \* history, kept for the properties only
    succeeded,          \* per URL: successful import() calls (counted to 2)
    done_before,        \* URLs imported before the last restart
    kept,               \* per hashtag: imported, and remote in every pass since
    pass,               \* what the current hashtag pass has done
    pending,            \* per hashtag: denied by quota, not tried since
    processed,          \* per hashtag: what import_hashtag() did in this pass
    granted,            \* per limiter and key: times of the latest grants
    pass_starts,        \* start times of the latest passes of this process
    run,                \* what the servers may answer, and until when
    pruned,             \* per hashtag: URLs a prune took out of the set
    unshrunk,           \* lim_upstreams as it would be, never shrunk
    permits             \* permits taken in import_status() less import() calls

prog == <<pc, i, s, cur, result, imported_statuses, remote_statuses,
          local_statuses, todo>>
lims == <<lim_queries, lim_upstreams, lim_import, lim_loop>>
hist == <<succeeded, done_before, kept, pass, pending, processed, granted,
          pass_starts, run>>
ghost == <<pruned, unshrunk, permits>>
vars == <<now, start, restarts, prog, lims, hist, ghost>>

HashtagIds == 1..NumHashtags
Sources(h) == Hashtags[h].sources

\* time since the limiters were built
T0 == now - start

NoPass == [old |-> {}, ok |-> {}, failed |-> {}, tried |-> {}, denied |-> {}]

\* "" before import_hashtag() is called, then "called", then its result
NotProcessed == [h \in HashtagIds |-> ""]

NoPermits == [upstreams |-> [k \in Hosts |-> 0], import |-> 0, queries |-> 0]

\* import() was called for `status`: the permits taken for it are spent
Spent(p, status) ==
    [upstreams |-> [k \in Hosts |->
                       IF k = UrlHost(status) THEN p.upstreams[k] - 1
                       ELSE p.upstreams[k]],
     import |-> p.import - 1,
     queries |-> p.queries - 1]

NoGrants == [queries |-> [k \in Servers |-> <<>>],
             upstreams |-> [k \in Hosts |-> <<>>],
             import |-> <<>>,
             loop |-> <<>>]

\* the latest n + 1 grant times of a limiter of burst n
Latest(seq, t, n) ==
    LET all == Append(seq, t)
    IN  IF Len(all) > n + 1 THEN Tail(all) ELSE all

\* run(), lines 89-98: fresh limiters, one empty set per hashtag, and the
\* first pass starts at once.
Fresh(t) ==
    /\ start = t
    /\ pc = "hashtag"
    /\ i = 1
    /\ s = 1
    /\ cur = ""
    /\ result = ""
    /\ imported_statuses = [h \in HashtagIds |-> {}]
    /\ remote_statuses = {}
    /\ local_statuses = {}
    /\ todo = {}
    /\ lim_queries = [k \in Servers |-> NoBucket]
    /\ lim_upstreams = [k \in Hosts |-> NoBucket]
    /\ lim_import = NoBucket
    /\ lim_loop = NoBucket

InitIn(runs) ==
    /\ now = 0
    /\ restarts = 0
    /\ Fresh(0)
    /\ succeeded = [u \in URLs |-> 0]
    /\ done_before = {}
    /\ kept = [h \in HashtagIds |-> {}]
    /\ pass = NoPass
    /\ pending = [h \in HashtagIds |-> {}]
    /\ processed = NotProcessed
    /\ granted = NoGrants
    /\ pass_starts = <<0>>
    /\ run \in runs
    /\ pruned = [h \in HashtagIds |-> {}]
    /\ unshrunk = [k \in Hosts |-> NoBucket]
    /\ permits = NoPermits

Init == InitIn(Runs)

\* ---------------------------------------------------------------- actions
\* run(), lines 100-108: the for loop calls import_hashtag() for hashtag i,
\* which starts with an empty remote_statuses.
CallImportHashtag ==
    /\ pc = "hashtag"
    /\ pc' = IF Len(Sources(i)) > 0 THEN "remote" ELSE "local"
    /\ pass' = [NoPass EXCEPT !.old = imported_statuses[i]]
    /\ processed' = [processed EXCEPT ![i] = "called"]
    /\ UNCHANGED <<now, start, restarts, i, s, cur, result,
                   imported_statuses, remote_statuses, local_statuses, todo,
                   lims, succeeded, done_before, kept, pending, granted,
                   pass_starts, run>>
    /\ UNCHANGED ghost

\* wait_until_key(lim_queries, key), then on to position `next`
WaitQuery(key, next) ==
    LET w == WaitUntil(QuotaQueries, lim_queries[key], T0)
    IN  /\ start + w.at <= run.until
        /\ now' = start + w.at
        /\ lim_queries' = [lim_queries EXCEPT ![key] = w.state]
        /\ granted' = [granted EXCEPT !.queries[key] =
                          Latest(@, start + w.at, QuotaQueries.max_burst)]
        /\ pc' = next
        /\ UNCHANGED <<start, restarts, i, s, cur, result, imported_statuses,
                       remote_statuses, local_statuses, todo, lim_upstreams,
                       lim_import, lim_loop, succeeded, done_before, kept,
                       pass, pending, processed, pass_starts, run>>
        /\ permits' = IF next = "import"
                      THEN [permits EXCEPT !.queries = @ + 1]
                      ELSE permits
        /\ UNCHANGED <<pruned, unshrunk>>

\* import_hashtag(), line 132
WaitQueryRemote ==
    /\ pc = "remote"
    /\ WaitQuery(Sources(i)[s], "remote_fetch")

\* import_hashtag(), lines 133-135: hashtags() on the source answered
FetchRemoteOk ==
    /\ pc = "remote_fetch"
    /\ \E list \in SUBSET run.offer :
          remote_statuses' = remote_statuses \cup list
    /\ IF s < Len(Sources(i))
       THEN s' = s + 1 /\ pc' = "remote"
       ELSE s' = s /\ pc' = "local"
    /\ UNCHANGED <<now, start, restarts, i, cur, result, imported_statuses,
                   local_statuses, todo, lims, hist>>
    /\ UNCHANGED ghost

\* import_hashtag() returns Err: nothing is marked, nothing is pruned
ReturnErr ==
    /\ result' = "Err"
    /\ pc' = "returned"
    /\ kept' = [kept EXCEPT ![i] = @ \cap remote_statuses]
    /\ imported_statuses' = [imported_statuses EXCEPT ![i] =
                                AfterFetchErr(@, remote_statuses)]
    /\ UNCHANGED <<now, start, restarts, i, s, cur, remote_statuses,
                   local_statuses, todo, lims, succeeded, done_before, pass,
                   pending, processed, granted, pass_starts, run>>
    /\ UNCHANGED ghost

\* import_hashtag(), line 134: hashtags() on the source failed
FetchRemoteErr ==
    /\ pc = "remote_fetch"
    /\ ReturnErr

\* import_hashtag(), line 142
WaitQueryLocal ==
    /\ pc = "local"
    /\ WaitQuery(Server, "local_fetch")

\* import_hashtag(), lines 143-152: hashtags() on the local server answered
FetchLocalOk ==
    /\ pc = "local_fetch"
    /\ \E list \in SUBSET run.offer :
          /\ local_statuses' = list
          /\ todo' = Candidates(remote_statuses, list)
    /\ pc' = "candidates"
    /\ UNCHANGED <<now, start, restarts, i, s, cur, result,
                   imported_statuses, remote_statuses, lims, hist>>
    /\ UNCHANGED ghost

\* import_hashtag(), line 150: hashtags() on the local server failed
FetchLocalErr ==
    /\ pc = "local_fetch"
    /\ ReturnErr

\* import_hashtag(), lines 152-155: the loop takes a candidate that is in
\* imported_statuses and goes on
SkipImported ==
    /\ pc = "candidates"
    /\ \E status \in todo :
          /\ AlreadyImported(imported_statuses[i], status)
          /\ todo' = todo \ {status}
    /\ UNCHANGED <<now, start, restarts, pc, i, s, cur, result,
                   imported_statuses, remote_statuses, local_statuses, lims,
                   hist>>
    /\ UNCHANGED ghost

\* import_status(), lines 176-183: the candidate's URL has no host
BadUrl ==
    /\ pc = "candidates"
    /\ \E status \in todo :
          /\ ~AlreadyImported(imported_statuses[i], status)
          /\ UrlHost(status) = NoHost
          /\ todo' = todo \ {status}
          /\ imported_statuses' = [imported_statuses EXCEPT ![i] =
                                      AfterImportErr(@, status)]
          /\ pass' = [pass EXCEPT !.tried = @ \cup {status}]
    /\ UNCHANGED <<now, start, restarts, pc, i, s, cur, result,
                   remote_statuses, local_statuses, lims, succeeded,
                   done_before, kept, pending, processed, granted,
                   pass_starts, run>>
    /\ UNCHANGED ghost

\* import_status(), lines 184-186: the upstream limiter has no cell for the
\* host
UpstreamDenied ==
    /\ pc = "candidates"
    /\ \E status \in todo :
          /\ ~AlreadyImported(imported_statuses[i], status)
          /\ UrlHost(status) # NoHost
          /\ ~CheckUpstream(lim_upstreams[UrlHost(status)], T0).ok
          /\ todo' = todo \ {status}
          /\ imported_statuses' = [imported_statuses EXCEPT ![i] =
                                      AfterImportErr(@, status)]
          /\ pass' = [pass EXCEPT !.tried = @ \cup {status},
                                  !.denied = @ \cup {status}]
    /\ UNCHANGED <<now, start, restarts, pc, i, s, cur, result,
                   remote_statuses, local_statuses, lims, succeeded,
                   done_before, kept, pending, processed, granted,
                   pass_starts, run>>
    /\ UNCHANGED ghost

\* import_status(), line 184: the upstream limiter grants a cell
UpstreamGranted ==
    /\ pc = "candidates"
    /\ \E status \in todo :
          LET host == UrlHost(status)
              r == CheckUpstream(lim_upstreams[host], T0)
          IN  /\ ~AlreadyImported(imported_statuses[i], status)
              /\ host # NoHost
              /\ r.ok
              /\ lim_upstreams' = [lim_upstreams EXCEPT ![host] = r.state]
              /\ granted' = [granted EXCEPT !.upstreams[host] =
                                Latest(@, now, QuotaUpstreams.max_burst)]
              /\ cur' = status
              /\ pass' = [pass EXCEPT !.tried = @ \cup {status}]
              /\ unshrunk' = [unshrunk EXCEPT ![host] =
                                 CheckUpstream(@, T0).state]
              /\ permits' = [permits EXCEPT !.upstreams[host] = @ + 1]
    /\ pc' = "wait_import"
    /\ UNCHANGED <<now, start, restarts, i, s, result, imported_statuses,
                   remote_statuses, local_statuses, todo, lim_queries,
                   lim_import, lim_loop, succeeded, done_before, kept,
                   pending, processed, pass_starts, run, pruned>>

\* import_status(), line 187: wait_until(lim_import)
WaitImport ==
    /\ pc = "wait_import"
    /\ LET w == WaitUntil(QuotaImport, lim_import, T0)
       IN  /\ start + w.at <= run.until
           /\ now' = start + w.at
           /\ lim_import' = w.state
           /\ granted' = [granted EXCEPT !.import =
                             Latest(@, start + w.at, QuotaImport.max_burst)]
    /\ pc' = AfterImportLimiter
    /\ UNCHANGED <<start, restarts, i, s, cur, result, imported_statuses,
                   remote_statuses, local_statuses, todo, lim_queries,
                   lim_upstreams, lim_loop, succeeded, done_before, kept,
                   pass, pending, processed, pass_starts, run>>
    /\ permits' = [permits EXCEPT !.import = @ + 1]
    /\ UNCHANGED <<pruned, unshrunk>>

\* import_status(), line 188
WaitQueryImport ==
    /\ pc = "wait_query"
    /\ WaitQuery(Server, "import")

\* import_status(), line 189, and import_hashtag(), lines 160-161:
\* import() succeeded
ImportOk ==
    /\ pc = "import"
    /\ imported_statuses' = [imported_statuses EXCEPT ![i] =
                                AfterImportOk(@, cur)]
    /\ todo' = todo \ {cur}
    /\ pc' = "candidates"
    /\ succeeded' = [succeeded EXCEPT ![cur] = IF @ < 2 THEN @ + 1 ELSE @]
    /\ kept' = [kept EXCEPT ![i] = @ \cup {cur}]
    /\ pass' = [pass EXCEPT !.ok = @ \cup {cur}]
    /\ UNCHANGED <<now, start, restarts, i, s, cur, result, remote_statuses,
                   local_statuses, lims, done_before, pending, processed,
                   granted, pass_starts, run>>
    /\ permits' = Spent(permits, cur)
    /\ UNCHANGED <<pruned, unshrunk>>

\* import_status(), line 189, and import_hashtag(), lines 156-159:
\* import() failed
ImportErr ==
    /\ pc = "import"
    /\ imported_statuses' = [imported_statuses EXCEPT ![i] =
                                AfterImportErr(@, cur)]
    /\ todo' = todo \ {cur}
    /\ pc' = "candidates"
    /\ pass' = [pass EXCEPT !.failed = @ \cup {cur}]
    /\ UNCHANGED <<now, start, restarts, i, s, cur, result, remote_statuses,
                   local_statuses, lims, succeeded, done_before, kept,
                   pending, processed, granted, pass_starts, run>>
    /\ permits' = Spent(permits, cur)
    /\ UNCHANGED <<pruned, unshrunk>>

\* import_hashtag(), lines 163-166: the loop is over, prune and return Ok
RetainAndReturn ==
    /\ pc = "candidates"
    /\ todo = {}
    /\ imported_statuses' = [imported_statuses EXCEPT ![i] =
                                Retain(@, remote_statuses)]
    /\ kept' = [kept EXCEPT ![i] = @ \cap remote_statuses]
    /\ result' = "Ok"
    /\ pc' = "returned"
    /\ UNCHANGED <<now, start, restarts, i, s, cur, remote_statuses,
                   local_statuses, todo, lims, succeeded, done_before, pass,
                   pending, processed, granted, pass_starts, run>>
    /\ pruned' = [pruned EXCEPT ![i] =
                     @ \cup (imported_statuses[i] \ imported_statuses'[i])]
    /\ UNCHANGED <<unshrunk, permits>>

\* run(), lines 100-112: import_hashtag() returned; an Err is printed and the
\* loop continues
NextHashtag ==
    /\ pc = "returned"
    /\ pc' = AfterHashtag(i, result).pc
    /\ i' = AfterHashtag(i, result).i
    /\ remote_statuses' = {}
    /\ local_statuses' = {}
    /\ todo' = {}
    /\ s' = 1
    /\ cur' = ""
    /\ result' = ""
    /\ pass' = NoPass
    /\ pending' = [pending EXCEPT ![i] = (@ \ pass.tried) \cup pass.denied]
    /\ processed' = [processed EXCEPT ![i] = result]
    /\ UNCHANGED <<now, start, restarts, imported_statuses, lims, succeeded,
                   done_before, kept, granted, pass_starts, run>>
    /\ UNCHANGED ghost

\* run(), line 115: sleep(5 minutes)
Sleep ==
    /\ pc = "sleep"
    /\ now + SleepBetweenPasses <= run.until
    /\ now' = now + SleepBetweenPasses
    /\ pc' = "wait_loop"
    /\ UNCHANGED <<start, restarts, i, s, cur, result, imported_statuses,
                   remote_statuses, local_statuses, todo, lims, hist>>
    /\ UNCHANGED ghost

\* run(), line 116: wait_until(&lim_loop)
WaitLoop ==
    /\ pc = "wait_loop"
    /\ LET w == WaitUntil(QuotaLoop, lim_loop, T0)
       IN  /\ start + w.at <= run.until
           /\ now' = start + w.at
           /\ lim_loop' = w.state
           /\ granted' = [granted EXCEPT !.loop =
                             Latest(@, start + w.at, QuotaLoop.max_burst)]
    /\ pc' = "shrink"
    /\ UNCHANGED <<start, restarts, i, s, cur, result, imported_statuses,
                   remote_statuses, local_statuses, todo, lim_queries,
                   lim_upstreams, lim_import, succeeded, done_before, kept,
                   pass, pending, processed, pass_starts, run>>
    /\ UNCHANGED ghost

\* run(), lines 118-119 and 99-100: shrink lim_upstreams, then the loop
\* starts the next pass with the first hashtag
ShrinkAndLoop ==
    /\ pc = "shrink"
    /\ lim_upstreams' = ShrinkToFit(lim_upstreams, T0)
    /\ i' = 1
    /\ pc' = "hashtag"
    /\ processed' = NotProcessed
    /\ pass_starts' = Latest(pass_starts, now, QuotaLoop.max_burst)
    /\ UNCHANGED <<now, start, restarts, s, cur, result, imported_statuses,
                   remote_statuses, local_statuses, todo, lim_queries,
                   lim_import, lim_loop, succeeded, done_before, kept, pass,
                   pending, granted, run>>
    /\ UNCHANGED ghost

\* The process is stopped and started again: run() builds everything anew
\* (lines 89-98); what the servers hold is not touched.
Restart ==
    /\ restarts < MaxRestarts
    /\ restarts' = restarts + 1
    /\ start' = now
    /\ pc' = "hashtag"
    /\ i' = 1
    /\ s' = 1
    /\ cur' = ""
    /\ result' = ""
    /\ imported_statuses' = [h \in HashtagIds |-> {}]
    /\ remote_statuses' = {}
    /\ local_statuses' = {}
    /\ todo' = {}
    /\ lim_queries' = [k \in Servers |-> NoBucket]
    /\ lim_upstreams' = [k \in Hosts |-> NoBucket]
    /\ lim_import' = NoBucket
    /\ lim_loop' = NoBucket
    /\ done_before' = {u \in URLs : succeeded[u] > 0}
    /\ kept' = [h \in HashtagIds |-> {}]
    /\ pass' = NoPass
    /\ pending' = [h \in HashtagIds |-> {}]
    /\ processed' = NotProcessed
    /\ granted' = NoGrants
    /\ pass_starts' = <<now>>
    /\ pruned' = [h \in HashtagIds |-> {}]
    /\ unshrunk' = [k \in Hosts |-> NoBucket]
    /\ permits' = NoPermits
    /\ UNCHANGED <<now, succeeded, run>>

Next ==
    \/ CallImportHashtag
    \/ WaitQueryRemote
    \/ FetchRemoteOk
    \/ FetchRemoteErr
    \/ WaitQueryLocal
    \/ FetchLocalOk
    \/ FetchLocalErr
    \/ SkipImported
    \/ BadUrl
    \/ UpstreamDenied
    \/ UpstreamGranted
    \/ WaitImport
    \/ WaitQueryImport
    \/ ImportOk
    \/ ImportErr
    \/ RetainAndReturn
    \/ NextHashtag
    \/ Sleep
    \/ WaitLoop
    \/ ShrinkAndLoop

Spec == Init /\ [][Next]_vars

\* The same program, with restarts of the process.
NextR == Next \/ Restart

InitR == InitIn(RunsRestart)

SpecR == InitR /\ [][NextR]_vars

\* The same program under its scheduling: it is one thread that is always
\* running, every call of the API returns, and the clock moves on, so a step
\* that can be taken is taken.
RunsFair == RunsRestart \cup {[offer |-> {}, until |-> MaxTimeIdle]}

InitFair == InitIn(RunsFair)

SpecFair == InitFair /\ [][Next]_vars /\ WF_vars(Next)

\* ============================================================== properties
\* import() is about to be called with `cur`
Calling == pc = "import"

\* import_hashtag() has just returned for hashtag i
Returned == pc = "returned"
Completed == Returned /\ result = "Ok"
Aborted == Returned /\ result = "Err"

\* URLs import() was called with in the current hashtag pass
Called == pass.ok \cup pass.failed

\* more than q.max_burst grants of one key lie within one window of `period`
\* exactly when the latest max_burst + 1 grants do
WithinQuota(seq, q, period) ==
    \/ Len(seq) <= q.max_burst
    \/ seq[Len(seq)] - seq[1] >= period

\* ---- C1
\* C1 as stated: over any run, import() never succeeds twice for the same
\* URL.
C1_NeverImportedTwice == \A u \in URLs : succeeded[u] <= 1

\* C1, amended: import() is never called with a URL that is in the
\* ImportedSet of the hashtag being processed, nor twice with the same URL in
\* one hashtag pass.  (Another hashtag's pass, or a later pass after the URL
\* was pruned, may import it again.)
C1_NotWhileInImportedSet ==
    Calling => /\ cur \notin imported_statuses[i]
               /\ cur \notin Called

\* the dedup has acted: a candidate imported in an earlier pass was passed
\* over, while import() goes on for another candidate
C1_Witness ==
    /\ Calling
    /\ \E u \in Candidates(remote_statuses, local_statuses) \ todo :
          u \in imported_statuses[i] /\ u \in pass.old /\ u # cur

\* ---- C2
\* C2: once import(u) has succeeded in a pass of a hashtag, import() is not
\* called with u in a later pass of that hashtag as long as u was in the
\* RemoteStatusSet of every pass since (aborted passes included): `kept`
\* holds exactly these URLs.
C2_NotReimportedWhileRemote == Calling => cur \notin kept[i]

\* a URL imported in an earlier pass, remote ever since, is a candidate
\* again and has been passed over
C2_Witness ==
    /\ pc = "candidates"
    /\ todo = {}
    /\ \E u \in kept[i] : /\ u \in pass.old
                          /\ u \in Candidates(remote_statuses, local_statuses)
                          /\ u \notin Called

\* ---- C3
\* C3 as stated: for each of the four limiters and every key, no more than
\* max_burst acquisitions succeed within any window of one period (a minute
\* for the query limiter, an hour for the others).
C3_QuotaPerWindow ==
    /\ \A k \in Servers : WithinQuota(granted.queries[k], QuotaQueries, Minute)
    /\ \A h \in Hosts : WithinQuota(granted.upstreams[h], QuotaUpstreams, Hour)
    /\ WithinQuota(granted.import, QuotaImport, Hour)
    /\ WithinQuota(granted.loop, QuotaLoop, Hour)

\* ---- C4
\* C4 as stated: however a hashtag pass ends, the hashtag's ImportedSet is a
\* subset of the RemoteStatusSet built in that pass (so it is no larger).
C4_SubsetHoweverEnded ==
    Returned => /\ imported_statuses[i] \subseteq remote_statuses
                /\ Cardinality(imported_statuses[i])
                      <= Cardinality(remote_statuses)

\* C4, amended: at the end of every hashtag pass that reaches the prune step
\* (both fetches succeeded), the ImportedSet is a subset of the
\* RemoteStatusSet of that pass, so it is no larger.  An aborted pass leaves
\* the ImportedSet unpruned.
C4_SubsetAfterPrune ==
    Completed => /\ imported_statuses[i] \subseteq remote_statuses
                 /\ Cardinality(imported_statuses[i])
                       <= Cardinality(remote_statuses)

\* a pass ended with the prune step, which dropped a URL and kept another
C4_Witness ==
    /\ Completed
    /\ pass.old \ remote_statuses # {}
    /\ imported_statuses[i] # {}

\* ---- C5
\* C5: in every hashtag pass import() is called only with URLs of
\* RemoteStatusSet minus LocalStatusSet of that pass.
C5_OnlyRemoteMinusLocal ==
    /\ Calling => cur \in remote_statuses \ local_statuses
    /\ Called \subseteq remote_statuses \ local_statuses

\* import() is called while a URL that is remote and local, and not in the
\* ImportedSet, has been left out
C5_Witness ==
    /\ Calling
    /\ \E u \in remote_statuses \cap local_statuses :
          u \notin imported_statuses[i]

\* ---- C6
\* C6: after a hashtag pass that completes, the ImportedSet is (the old
\* ImportedSet, with the candidates whose import() succeeded) cut down to the
\* RemoteStatusSet; a candidate that failed is in it only if it was there
\* before; and every candidate not in the old ImportedSet was attempted,
\* whatever happened to the others.
C6_ImportedAfterPass ==
    Completed =>
        /\ imported_statuses[i] = (pass.old \cup pass.ok) \cap remote_statuses
        /\ (pass.tried \ pass.ok) \cap imported_statuses[i] \subseteq pass.old
        /\ pass.tried = Candidates(remote_statuses, local_statuses) \ pass.old

\* the scenario of the spec: one import() succeeded, another failed, and the
\* pass completed
C6_Witness ==
    /\ Completed
    /\ pass.ok # {}
    /\ pass.failed # {}
    /\ local_statuses # {}

\* ---- C7
\* C7: a candidate the upstream-host limiter denies is skipped at once: no
\* time passes, import() is not called, the global import limiter and the
\* query limiter are not touched, the ImportedSet is unchanged and the loop
\* goes on; and in the next pass that completes with the URL in
\* RemoteStatusSet minus LocalStatusSet it is attempted again.
C7_SkippedOnQuota ==
    /\ [][ pass'.denied \ pass.denied # {} =>
              /\ now' = now
              /\ pc' = "candidates"
              /\ lim_import' = lim_import
              /\ lim_queries' = lim_queries
              /\ imported_statuses' = imported_statuses
              /\ pass'.ok = pass.ok /\ pass'.failed = pass.failed
              /\ (pass'.denied \ pass.denied) \cap imported_statuses'[i] = {}
         ]_vars
    /\ [](Completed =>
             pending[i] \cap Candidates(remote_statuses, local_statuses)
                 \subseteq pass.tried)

\* a URL denied in an earlier pass of the hashtag is attempted again
C7_Witness ==
    /\ pc \in {"candidates", "wait_import"}
    /\ pending[i] \cap pass.tried # {}

\* ---- C8
\* C8: a failed source or local fetch aborts only that hashtag's pass:
\* nothing was attempted for that hashtag, the for loop still calls
\* import_hashtag() for every hashtag in order, and reaches the sleep that
\* leads to the next pass.
C8_AbortOnlyThisHashtag ==
    /\ Aborted => pass.tried = {} /\ imported_statuses[i] = pass.old
    /\ pc = "hashtag" =>
          \A h \in HashtagIds : (processed[h] \in {"Ok", "Err"}) <=> (h < i)
    /\ pc = "sleep" => \A h \in HashtagIds : processed[h] \in {"Ok", "Err"}

\* the first hashtag's pass was aborted, the second one's completed with an
\* import, and the scheduler is in the sleep before the next pass
C8_Witness ==
    /\ pc = "sleep"
    /\ processed[1] = "Err"
    /\ processed[2] = "Ok"
    /\ imported_statuses[2] # {}

\* ---- C9
\* C9 as stated: after a restart, no URL whose import() succeeded before the
\* restart is passed to import().
C9_NoReimportAfterRestart == Calling => cur \notin done_before

\* C9, amended: after a restart, a URL whose import() succeeded before the
\* restart is not passed to import() in a pass whose LocalStatusSet holds
\* it; when the local fetch does not return it, it is imported again.
C9_NoReimportWhileLocal ==
    Calling /\ cur \in done_before => cur \notin local_statuses

\* after a restart, with an empty ImportedSet, import() is called while a
\* URL imported before the restart is remote and local and left out
C9_Witness ==
    /\ restarts > 0
    /\ Calling
    /\ \E u \in done_before :
          /\ u \in remote_statuses \cap local_statuses
          /\ u \notin imported_statuses[i]
          /\ u \notin todo

\* ---- C10
\* C10 as stated: counting every pass from process start, at most 4 passes
\* start in any one-hour window.
C10_FourPassesPerHour == WithinQuota(pass_starts, QuotaLoop, Hour)

\* ---- C11
\* C11: the prune step is idempotent and is exactly the intersection: with I
\* the ImportedSet before the prune and S the RemoteStatusSet, the ImportedSet
\* after it is I \cap S, and pruning that (or I, twice) with S again gives
\* the same set.
C11_RetainIdempotent ==
    [][ pc = "candidates" /\ pc' = "returned" =>
           LET I == imported_statuses[i]
               S == remote_statuses
           IN  /\ imported_statuses'[i] = I \cap S
               /\ Retain(imported_statuses'[i], S) = imported_statuses'[i]
               /\ Retain(Retain(I, S), S) = Retain(I, S)
      ]_vars

\* a prune has dropped a URL that is no longer remote, kept one that still
\* is, and kept one imported in this very pass
C11_Witness ==
    /\ Completed
    /\ pass.old \ remote_statuses # {}
    /\ pass.old \cap remote_statuses # {}
    /\ pass.ok # {}

\* ---- C12
\* the positions at which a network call is about to be made, and the server
\* it goes to
CallPcs == {"remote_fetch", "local_fetch", "import"}
CallServer == IF pc = "remote_fetch" THEN Sources(i)[s] ELSE Server

\* C12: every network call (remote fetch, local fetch, import()) to a server
\* is made right after a grant of the query limiter for that server's key:
\* the step that reaches the call is that grant, the call is made at the time
\* of the key's latest grant, and two successive grants of one key (hence two
\* successive calls to one server) are at least a minute apart, also for a
\* hashtag whose source is the local server.
C12_QueryLimiterBeforeCall ==
    /\ [][ pc' \in CallPcs /\ pc' # pc =>
              /\ lim_queries'[CallServer'] # lim_queries[CallServer']
              /\ \A k \in Servers \ {CallServer'} :
                    lim_queries'[k] = lim_queries[k]
              /\ granted'.queries[CallServer']
                    = Latest(granted.queries[CallServer'], now',
                             QuotaQueries.max_burst)
         ]_vars
    /\ [](pc \in CallPcs =>
             LET g == granted.queries[CallServer]
             IN  Len(g) >= 1 /\ g[Len(g)] = now)
    /\ [](\A k \in Servers :
             LET g == granted.queries[k]
             IN  Len(g) = 2 => g[2] - g[1] >= Minute)

\* the local fetch of a hashtag whose source is the local server is about to
\* be made, one minute after the fetch from that source
C12_Witness ==
    /\ pc = "local_fetch"
    /\ Sources(i)[s] = Server
    /\ LET g == granted.queries[Server]
       IN  Len(g) = 2 /\ g[2] = now /\ g[2] - g[1] = Minute

\* ---- C13
\* C13 as stated: a URL that a prune took out of a hashtag's ImportedSet is
\* never passed to import() in a later pass of that hashtag.
C13_PrunedNeverImportedAgain == Calling => cur \notin pruned[i]

\* C13, amended: a URL that a prune took out of a hashtag's ImportedSet is
\* passed to import() in a later pass of that hashtag only when it is in that
\* pass's RemoteStatusSet again and not in its LocalStatusSet; it is then no
\* longer in the ImportedSet, so nothing holds the import back.
C13_PrunedImportedOnlyIfRemoteAgain ==
    Calling /\ cur \in pruned[i] =>
        /\ cur \in remote_statuses
        /\ cur \notin local_statuses
        /\ cur \notin pass.old

\* import() is called with a URL that was imported, then pruned, and is a
\* candidate again
C13_Witness ==
    /\ Calling
    /\ cur \in pruned[i]
    /\ succeeded[cur] > 0

\* ---- C14
\* the time of the latest grant in a list of grants
LastGrant(seq) == seq[Len(seq)]

\* C14: import_status() takes its steps in one order, with nothing between
\* them: from the candidate loop, a URL with a host passes the non-blocking
\* check of the upstream limiter for that host (no time passes, no other
\* limiter is touched); the next step is the grant of the import limiter,
\* the one after it the grant of the query limiter for the local server, and
\* only that step reaches import(), still for the same URL.  So import() is
\* called only with a URL that has a host and got the three grants, in this
\* order, in this pass.
C14_ImportStepsInOrder ==
    /\ [][ /\ pc' = "wait_import" =>
               /\ pc = "candidates"
               /\ cur' \in todo
               /\ UrlHost(cur') # NoHost
               /\ Check(QuotaUpstreams, lim_upstreams[UrlHost(cur')], T0).ok
               /\ lim_upstreams' =
                     [lim_upstreams EXCEPT ![UrlHost(cur')] =
                         Check(QuotaUpstreams, @, T0).state]
               /\ now' = now
               /\ lim_import' = lim_import
               /\ lim_queries' = lim_queries
           /\ pc = "wait_import" =>
               /\ pc' = "wait_query"
               /\ cur' = cur
               /\ lim_import' # lim_import
               /\ lim_upstreams' = lim_upstreams
               /\ lim_queries' = lim_queries
           /\ pc = "wait_query" =>
               /\ pc' = "import"
               /\ cur' = cur
               /\ lim_queries'[Server] # lim_queries[Server]
               /\ lim_upstreams' = lim_upstreams
               /\ lim_import' = lim_import
           /\ pc' = "wait_query" => pc = "wait_import"
           /\ pc' = "import" => pc = "wait_query"
        ]_vars
    /\ [](Calling =>
             /\ UrlHost(cur) # NoHost
             /\ cur \in pass.tried \ pass.denied
             /\ granted.upstreams[UrlHost(cur)] # <<>>
             /\ granted.import # <<>>
             /\ LastGrant(granted.upstreams[UrlHost(cur)])
                   <= LastGrant(granted.import)
             /\ LastGrant(granted.import) <= LastGrant(granted.queries[Server])
             /\ LastGrant(granted.queries[Server]) = now)

\* import() is called for the second candidate of a pass, after a wait on
\* the query limiter that followed the grants of the other two
C14_Witness ==
    /\ Calling
    /\ pass.ok # {}
    /\ LastGrant(granted.upstreams[UrlHost(cur)]) < now
    /\ LastGrant(granted.import) < now

\* ---- C15
\* the time the wait at the current position ends
WaitEnds ==
    CASE pc = "remote" ->
            start + WaitUntil(QuotaQueries, lim_queries[Sources(i)[s]], T0).at
      [] pc \in {"local", "wait_query"} ->
            start + WaitUntil(QuotaQueries, lim_queries[Server], T0).at
      [] pc = "wait_import" -> start + WaitUntil(QuotaImport, lim_import, T0).at
      [] pc = "wait_loop" -> start + WaitUntil(QuotaLoop, lim_loop, T0).at
      [] pc = "sleep" -> now + SleepBetweenPasses
      [] OTHER -> now

\* the run is followed no further: the next step of the program would end
\* after the time until which the run is followed
Stopped == WaitEnds > run.until

\* C15: nothing stops the loop but the end of the run.  Whatever the API
\* calls return, a step is possible in every state; every call of
\* import_hashtag() returns; after it returned for a hashtag that is not the
\* last one, it is called for the next one, also after an Err; after the
\* last one the next pass starts with the first hashtag.  The hashtags are
\* taken once per pass, in the order of the configuration, and the sleep is
\* reached only after the last one.
C15_LoopsForever ==
    /\ [](Stopped \/ ENABLED Next)
    /\ \A h \in HashtagIds :
          (pc = "hashtag" /\ i = h) ~> (Stopped \/ (Returned /\ i = h))
    /\ \A h \in HashtagIds \ {NumHashtags} :
          (Returned /\ i = h) ~> (pc = "hashtag" /\ i = h + 1)
    /\ (Returned /\ i = NumHashtags) ~> (Stopped \/ (pc = "hashtag" /\ i = 1))
    /\ [][ /\ pc' = "hashtag" /\ pc # "hashtag" =>
                \/ Returned /\ i < NumHashtags /\ i' = i + 1
                \/ pc = "shrink" /\ i' = 1
           /\ pc' = "sleep" /\ pc # "sleep" => Returned /\ i = NumHashtags
           /\ i' # i => pc' = "hashtag"
         ]_vars

\* in the third pass import_hashtag() returned Err for the first hashtag and
\* is about to be called for the second
C15_Witness ==
    /\ Len(pass_starts) >= 3
    /\ pc = "hashtag"
    /\ i = 2
    /\ processed[1] = "Err"

\* ---- C16
\* a hashtag pass is in progress: import_hashtag() was called and run() has
\* not yet gone on from its return
InHashtagPass == pc \notin {"hashtag", "sleep", "wait_loop", "shrink"}

\* C16: between the last hashtag of a pass and the first of the next, run()
\* takes three steps in this order: the sleep of 5 minutes, which touches no
\* limiter; the grant of the cadence limiter; the compaction of the upstream
\* limiter, which takes no time and leaves the query, import and cadence
\* limiters as they are.  A bucket of the upstream limiter goes away in the
\* compaction step only, never while a hashtag pass is in progress.
C16_BetweenPasses ==
    [][ /\ pc' = "sleep" /\ pc # "sleep" => Returned /\ i = NumHashtags
        /\ pc = "sleep" =>
            /\ pc' = "wait_loop"
            /\ now' = now + 5 * Minute
            /\ lims' = lims
        /\ pc' = "wait_loop" => pc = "sleep"
        /\ pc = "wait_loop" =>
            /\ pc' = "shrink"
            /\ now' >= now
            /\ lim_loop' = Check(QuotaLoop, lim_loop, now' - start).state
            /\ lim_loop' # lim_loop
            /\ <<lim_queries, lim_upstreams, lim_import>>'
                  = <<lim_queries, lim_upstreams, lim_import>>
        /\ pc' = "shrink" => pc = "wait_loop"
        /\ pc = "shrink" =>
            /\ pc' = "hashtag" /\ i' = 1
            /\ now' = now
            /\ <<lim_queries, lim_import, lim_loop>>'
                  = <<lim_queries, lim_import, lim_loop>>
            /\ \A k \in Hosts : lim_upstreams'[k] \in {lim_upstreams[k], NoBucket}
        /\ (\E k \in Hosts : /\ lim_upstreams[k] # NoBucket
                              /\ lim_upstreams'[k] = NoBucket) =>
            pc = "shrink" /\ ~InHashtagPass
      ]_vars

\* a pass starts after the sleep, the grant of the cadence limiter and a
\* compaction that removed a bucket
C16_Witness ==
    /\ pc = "hashtag"
    /\ i = 1
    /\ Len(pass_starts) >= 2
    /\ \E k \in Hosts : unshrunk[k] # NoBucket /\ lim_upstreams[k] = NoBucket

\* ---- C17
\* the number of permits a bucket holds at time t0: the grants that checks
\* made one after the other at t0 would get
RECURSIVE PermitsAt(_, _, _)
PermitsAt(q, tat, t0) ==
    LET r == Check(q, tat, t0)
    IN  IF r.ok THEN 1 + PermitsAt(q, r.state, t0) ELSE 0

\* C17: the compaction removes a bucket of the upstream limiter only when it
\* holds its full burst again, and it cannot be observed: a bucket differs
\* from what it would be had the limiter never been compacted only by having
\* been removed, the bucket it would be is full, and at every time from now
\* on (a bucket is full again within an hour) the next check of the host
\* gives the same grant or denial, the same wait and the same bucket
\* afterwards in both.
C17_CompactionTransparent ==
    \A k \in Hosts :
        lim_upstreams[k] # unshrunk[k] =>
            /\ lim_upstreams[k] = NoBucket
            /\ PermitsAt(QuotaUpstreams, unshrunk[k], T0)
                  = QuotaUpstreams.max_burst
            /\ \A t \in T0..(T0 + Hour) :
                  LET a == Check(QuotaUpstreams, lim_upstreams[k], t)
                      b == Check(QuotaUpstreams, unshrunk[k], t)
                  IN  /\ a.ok = b.ok
                      /\ a.wait = b.wait
                      /\ a.ok => a.state = b.state

\* a compaction has removed the bucket of a host, and a candidate of that
\* host is about to be checked
C17_Witness ==
    /\ pc = "candidates"
    /\ \E u \in todo :
          /\ ~AlreadyImported(imported_statuses[i], u)
          /\ UrlHost(u) # NoHost
          /\ lim_upstreams[UrlHost(u)] = NoBucket
          /\ unshrunk[UrlHost(u)] # NoBucket

\* ---- C18
\* the candidates a step has taken up
Taken == pass'.tried \ pass.tried

\* C18: a candidate whose URL has no host is passed over in one step of the
\* candidate loop: no time passes, no limiter is touched and no permit is
\* taken, import() is not called, the ImportedSet stays as it is, and the
\* loop goes on with the candidates that are left.  Such a URL is never
\* passed to import() and is in no ImportedSet, and a pass in which one
\* occurred still tries every other candidate and ends with the prune.
C18_BadUrlSkipped ==
    /\ [][ (\E u \in Taken : UrlHost(u) = NoHost) =>
              /\ pc = "candidates" /\ pc' = "candidates"
              /\ now' = now
              /\ lims' = lims
              /\ granted' = granted
              /\ permits' = permits
              /\ imported_statuses' = imported_statuses
              /\ pass'.ok = pass.ok /\ pass'.failed = pass.failed
              /\ todo' = todo \ Taken
         ]_vars
    /\ [](Calling => UrlHost(cur) # NoHost)
    /\ [](\A u \in Called \cup pass.denied : UrlHost(u) # NoHost)
    /\ [](\A h \in HashtagIds : \A u \in imported_statuses[h] :
             UrlHost(u) # NoHost)
    /\ [](Completed =>
             /\ pass.tried = Candidates(remote_statuses, local_statuses)
                                \ pass.old
             /\ imported_statuses[i] \subseteq remote_statuses)

\* a pass in which a URL without host was passed over has imported another
\* candidate and has ended with the prune
C18_Witness ==
    /\ Completed
    /\ \E u \in pass.tried : UrlHost(u) = NoHost
    /\ pass.ok # {}
    /\ imported_statuses[i] # {}

\* ---- C19
\* C19: import_hashtag() for hashtag i changes no ImportedSet but that of i,
\* and that one only in the loop over the candidates and in the prune; the
\* fetches and run() itself change none.  So when a fetch error aborts the
\* pass of hashtag i, its ImportedSet is the one it had when the pass began:
\* nothing marked, nothing pruned.
C19_FrameOfImportedSet ==
    /\ [][ /\ \A j \in HashtagIds :
                imported_statuses'[j] # imported_statuses[j] =>
                    j = i /\ pc \in {"candidates", "import"}
           /\ result' = "Err" => imported_statuses' = imported_statuses
         ]_vars
    /\ [](Aborted =>
             /\ imported_statuses[i] = pass.old
             /\ pass.tried = {})

\* the pass of a hashtag was aborted while its ImportedSet holds a URL that
\* the prune would have taken out, and another hashtag's ImportedSet is not
\* empty
C19_Witness ==
    /\ Aborted
    /\ pass.old \ remote_statuses # {}
    /\ imported_statuses[i] = pass.old
    /\ \E j \in HashtagIds : j # i /\ imported_statuses[j] # {}

\* ---- C20
\* a limiter's bucket went from `old` to `new` by one grant at time t
OneCell(q, old, new, t) == new = Max(old, t) + q.replenish_1_per

\* C20: `permits` counts, per limiter, the grants made in import_status()
\* less the calls of import().  Each grant counted took one cell of its
\* bucket, and every grant of the upstream and of the import limiter is
\* counted.  When import() is called for a URL of host h, exactly one permit
\* of the upstream limiter for h, one of the import limiter and one of the
\* query limiter for the local server are counted; the call, whether it
\* succeeds or fails, uses them up and gives nothing back to any limiter.
\* So the count never goes below zero: no limiter has seen more calls of
\* import() than it has granted permits.
C20_PermitsPerImport ==
    /\ [][ /\ \A k \in Hosts :
                /\ permits'.upstreams[k] \in
                      {permits.upstreams[k] - 1, permits.upstreams[k],
                       permits.upstreams[k] + 1}
                /\ permits'.upstreams[k] = permits.upstreams[k] + 1 <=>
                      lim_upstreams'[k] \notin {lim_upstreams[k], NoBucket}
                /\ permits'.upstreams[k] = permits.upstreams[k] + 1 =>
                      OneCell(QuotaUpstreams, lim_upstreams[k],
                              lim_upstreams'[k], T0)
           /\ permits'.import = permits.import + 1 <=> lim_import' # lim_import
           /\ permits'.import = permits.import + 1 =>
                 OneCell(QuotaImport, lim_import, lim_import', now' - start)
           /\ permits'.queries = permits.queries + 1 =>
                 OneCell(QuotaQueries, lim_queries[Server],
                         lim_queries'[Server], now' - start)
           /\ Calling =>
                 /\ lims' = lims
                 /\ granted' = granted
                 /\ permits' = Spent(permits, cur)
                 /\ permits' = NoPermits
           /\ permits' # permits /\ ~Calling =>
                 pc \in {"candidates", "wait_import", "wait_query"}
         ]_vars
    /\ [](Calling =>
             /\ permits.upstreams =
                   [k \in Hosts |-> IF k = UrlHost(cur) THEN 1 ELSE 0]
             /\ permits.import = 1
             /\ permits.queries = 1)
    /\ [](/\ \A k \in Hosts : permits.upstreams[k] >= 0
          /\ permits.import >= 0
          /\ permits.queries >= 0)

\* import() is called for the third time in a pass, after one call that
\* failed and one that succeeded
C20_Witness ==
    /\ Calling
    /\ pass.failed # {}
    /\ pass.ok # {}
    /\ permits.import = 1

====
